---- MODULE Spec2Model ----
(***************************************************************************)
(* Oil-spill detection: the satellite-catalog client (CopernicusAuth,      *)
(* authenticatedFetch, CopernicusService, findSatelliteImagery) and the    *)
(* detection synchronisation hook (useDetections).                         *)
(*                                                                         *)
(* JavaScript runs one task at a time and drains its microtasks before the *)
(* next task, so every action below is one task of the event loop: a call  *)
(* up to its first network await, or the arrival of one network response   *)
(* together with every continuation that response resumes.                 *)
(***************************************************************************)
EXTENDS Integers, Sequences, FiniteSets, TLC

(***************************************************************************)
(* Bounds of the model.                                                    *)
(***************************************************************************)
\* identity requests that may be sent in one behaviour
MaxRefresh == 3
\* steps the wall clock may advance
MaxTicks == 2
\* writes the database may commit in one behaviour
MaxCommits == 1

(***************************************************************************)
(* Program constants.                                                      *)
(***************************************************************************)
\* the one-minute validity buffer of getAccessToken, in ms
BufferMs == 60000
\* expires_in is in seconds, Date.now() in ms
MsPerSecond == 1000

\* expires_in values the identity provider may report (seconds)
ExpiresIn == {60, 180}
\* HTTP statuses of a catalog response
Statuses == {200, 401, 500}
\* data.value of a 200 response: lists of raw catalog item ids
Pages == {<< >>, <<8, 7>>}

\* the two searches of a lookup, and a plain token consumer (SecureImage, layers)
Searches == {"sar", "opt"}
Direct == {"img"}
Procs == Searches \cup Direct

VARIABLES
    auth,          \* CopernicusAuth statics + the identity requests in flight
    credentials,   \* VITE_COPERNICUS_CLIENT_ID / _SECRET are both set
    now,           \* Date.now()
    issued,        \* tokens the identity provider has issued so far
    proc,          \* per caller: position and locals of its call
    lk,            \* findSatelliteImagery: "idle", "running", "done"
    lkResult,      \* what the last findSatelliteImagery returned
    clr            \* bookkeeping: the first getAccessToken after a clearToken

catalogVars == <<auth, credentials, now, issued, proc, lk, lkResult, clr>>

VARIABLES
    db,            \* rows of the table oil_spill_detections
    clock,         \* time, as the database and the browser read it
    events,        \* postgres_changes events not yet delivered to the channel
    detections,    \* useState: the in-memory collection
    loading,       \* useState
    error,         \* useState: "null" or the Error of the last failed fetch
    isFetching,    \* isFetchingRef.current
    filters,       \* options.filters of the current render
    mountFilters,  \* options.filters of the first render
    fetch,         \* the select issued by fetchDetections, while in flight
    op,            \* per caller: its updateDetection / deleteDetection call
    used,          \* ids the table has ever held (a uuid is never reused)
    sub,           \* the component's life and its channel subscriptions
    rf             \* handleRefresh: position of its await refetch()

storeVars == <<db, clock, events, detections, loading, error, isFetching,
               filters, mountFilters, fetch, op, used, sub, rf>>

VARIABLES
    geo,           \* a catalog search's point, buffer and search polygon
    image          \* a SecureImage component: its state and its effect runs

viewVars == <<geo, image>>

vars == <<catalogVars, storeVars, viewVars>>


(***************************************************************************)
(* CopernicusAuth                                                          *)
(***************************************************************************)
TokenValid_noBuffer(a) == a.accessToken # 0 /\ now < a.tokenExpiry

\* getAccessToken, line 26: the cached token is still valid
TokenValid(a) == a.accessToken # 0 /\ now < a.tokenExpiry - BufferMs

AlreadyRefreshing_never(a) == FALSE

\* getAccessToken, line 31: a refresh is in progress and its promise is published
AlreadyRefreshing(a) == a.isRefreshing /\ a.refreshPromise # 0

\* getAccessToken up to its first await.  kind "token": returned from the
\* cache; "wait": the caller awaits the identity request req; "error":
\* fetchNewToken threw before sending anything (credentials missing), and the
\* finally block has already reset the marker.
getAccessToken(a) ==
    IF TokenValid(a)
    THEN [auth |-> a, kind |-> "token", token |-> a.accessToken, req |-> 0]
    ELSE IF AlreadyRefreshing(a)
    THEN [auth |-> a, kind |-> "wait", token |-> 0, req |-> a.refreshPromise]
    ELSE IF ~credentials
    THEN [auth |-> [a EXCEPT !.isRefreshing = FALSE, !.refreshPromise = 0],
          kind |-> "error", token |-> 0, req |-> 0]
    ELSE LET r == a.sent + 1
         IN  [auth |-> [a EXCEPT !.isRefreshing = TRUE,
                                 !.refreshPromise = r,
                                 !.inflight = @ \cup {r},
                                 !.sent = r],
              kind |-> "wait", token |-> 0, req |-> r]

clearToken_keeps(a) == a

\* clearToken, lines 98-101
clearToken(a) == [a EXCEPT !.accessToken = 0, !.tokenExpiry = 0]

\* fetchNewToken lines 82-88 on a 2xx identity response, then the finally
\* block of the getAccessToken call that started the request (lines 42-45)
RefreshSucceeded(a, r, tok, expiresIn) ==
    [a EXCEPT !.accessToken = tok,
              !.tokenExpiry = now + expiresIn * MsPerSecond,
              !.isRefreshing = FALSE,
              !.refreshPromise = 0,
              !.inflight = @ \ {r}]

RefreshFailed_keepsMarker(a, r) == [a EXCEPT !.inflight = @ \ {r}]

\* fetchNewToken lines 77-80 on a rejected identity request, then the finally
\* block (lines 42-45)
RefreshFailed(a, r) ==
    [a EXCEPT !.isRefreshing = FALSE,
              !.refreshPromise = 0,
              !.inflight = @ \ {r}]

\* Bookkeeping for the first getAccessToken after a clearToken.
ClrArmed(a) ==
    [armed |-> TRUE, mark |-> issued, cached |-> a.accessToken,
     waiter |-> "none", got |-> 0]

ClrNoteGet(c, p, g) ==
    IF c.armed
    THEN [c EXCEPT !.armed = FALSE,
                   !.waiter = IF g.kind = "wait" THEN p ELSE "none",
                   !.got = IF g.kind = "token" THEN g.token ELSE 0]
    ELSE c

ClrNoteSettle(c, pr, r, tok) ==
    IF c.waiter # "none" /\ pr[c.waiter].waitOn = r
    THEN [c EXCEPT !.waiter = "none", !.got = tok]
    ELSE c

(***************************************************************************)
(* authenticatedFetch and the searches of CopernicusService                *)
(***************************************************************************)
IdleProc ==
    [pc |-> "idle", waitOn |-> 0, served |-> 0, tok |-> 0, tok1 |-> 0, tok2 |-> 0,
     nreq |-> 0, resp1 |-> 0, resp2 |-> 0, result |-> << >>,
     err |-> "none", errStatus |-> 0]

Platform(p) == IF p = "sar" THEN "SENTINEL-1" ELSE "SENTINEL-2"

\* data.value.map(...) of searchSentinel1SAR / searchSentinel2MSI
MapProducts(p, page) ==
    [i \in 1..Len(page) |-> [id |-> page[i], platform |-> Platform(p)]]

\* authenticatedFetch lines 127-138: obtain a token, then send the request
FirstToken(pr, g) ==
    IF g.kind = "token"
    THEN [pr EXCEPT !.pc = "req1", !.tok = g.token, !.tok1 = g.token, !.nreq = 1]
    ELSE IF g.kind = "wait"
    THEN [pr EXCEPT !.pc = "tok1", !.waitOn = g.req]
    ELSE [pr EXCEPT !.pc = "err", !.err = "token"]

IsUnauthorized_anyFailure(status) == status # 200

\* authenticatedFetch line 141
IsUnauthorized(status) == status = 401

\* authenticatedFetch lines 144-151: the token for the retry, then the retry
RetryToken(pr, g) ==
    IF g.kind = "token"
    THEN [pr EXCEPT !.pc = "req2", !.served = 0, !.tok = g.token, !.tok2 = g.token,
                    !.nreq = 2]
    ELSE IF g.kind = "wait"
    THEN [pr EXCEPT !.pc = "tok2", !.waitOn = g.req]
    ELSE [pr EXCEPT !.pc = "err", !.err = "token"]

\* searchSentinel1SAR / searchSentinel2MSI lines 220-242 on the response that
\* authenticatedFetch returned
SearchReturn(p, pr, status, page) ==
    IF status = 200
    THEN [pr EXCEPT !.pc = "ok", !.result = MapProducts(p, page)]
    ELSE [pr EXCEPT !.pc = "err", !.err = "api", !.errStatus = status]

\* a caller resumed by the identity response it awaited (token tk, 0: rejected)
Resumed(p, pr, tk) ==
    IF tk = 0
    THEN [pr EXCEPT !.pc = "err", !.err = "token", !.waitOn = 0]
    ELSE IF pr.pc = "tok2"
    THEN [pr EXCEPT !.pc = "req2", !.waitOn = 0, !.served = pr.waitOn,
                    !.tok = tk, !.tok2 = tk, !.nreq = 2]
    ELSE IF p \in Searches
    THEN [pr EXCEPT !.pc = "req1", !.waitOn = 0, !.served = pr.waitOn,
                    !.tok = tk, !.tok1 = tk, !.nreq = 1]
    ELSE [pr EXCEPT !.pc = "ok", !.waitOn = 0, !.served = pr.waitOn, !.tok = tk]

(***************************************************************************)
(* findSatelliteImagery                                                    *)
(***************************************************************************)
Settled(pr) == pr.pc \in {"ok", "err"}

\* one entry of Promise.allSettled
Outcome(pr) ==
    [status |-> IF pr.pc = "ok" THEN "fulfilled" ELSE "rejected", value |-> pr.result]

findSatelliteImagery_bothOnly(sarProducts, opticalProducts) ==
    [sar |-> IF sarProducts.status = "fulfilled" THEN sarProducts.value ELSE << >>,
     optical |-> IF opticalProducts.status = "fulfilled" THEN opticalProducts.value ELSE << >>,
     error |-> IF sarProducts.status = "rejected" /\ opticalProducts.status = "rejected"
               THEN "Some imagery could not be loaded" ELSE "undefined",
     promise |-> "fulfilled"]

\* findSatelliteImagery lines 422-429; Promise.allSettled never rejects, so the
\* catch of lines 430-437 is never entered and the call always fulfils
findSatelliteImagery(sarProducts, opticalProducts) ==
    [sar |-> IF sarProducts.status = "fulfilled" THEN sarProducts.value ELSE << >>,
     optical |-> IF opticalProducts.status = "fulfilled" THEN opticalProducts.value ELSE << >>,
     error |-> IF sarProducts.status = "rejected" \/ opticalProducts.status = "rejected"
               THEN "Some imagery could not be loaded" ELSE "undefined",
     promise |-> "fulfilled"]

NoResult == [sar |-> << >>, optical |-> << >>, error |-> "undefined", promise |-> "pending"]

\* the await of line 417 resumes in the task that settles the second search
JoinLookup(pr) ==
    IF lk = "running" /\ Settled(pr["sar"]) /\ Settled(pr["opt"])
    THEN /\ lk' = "done"
         /\ lkResult' = findSatelliteImagery(Outcome(pr["sar"]), Outcome(pr["opt"]))
    ELSE UNCHANGED <<lk, lkResult>>

(***************************************************************************)
(* Actions of the catalog client                                           *)
(***************************************************************************)
CatalogInit ==
    /\ auth = [accessToken |-> 0, tokenExpiry |-> 0, isRefreshing |-> FALSE,
               refreshPromise |-> 0, inflight |-> {}, sent |-> 0]
    /\ credentials \in BOOLEAN
    /\ now = 0
    /\ issued = 0
    /\ proc = [p \in Procs |-> IdleProc]
    /\ lk = "idle"
    /\ lkResult = NoResult
    /\ clr = [armed |-> FALSE, mark |-> 0, cached |-> 0, waiter |-> "none", got |-> 0]

\* findSatelliteImagery lines 417-420: both searches start in the same task,
\* radar first; each runs authenticatedFetch up to its first await
StartLookup ==
    /\ lk \in {"idle", "done"}
    /\ LET g1 == getAccessToken(auth)
           c1 == ClrNoteGet(clr, "sar", g1)
           g2 == getAccessToken(g1.auth)
           c2 == ClrNoteGet(c1, "opt", g2)
           pr == [proc EXCEPT !["sar"] = FirstToken(IdleProc, g1),
                              !["opt"] = FirstToken(IdleProc, g2)]
       IN  /\ g2.auth.sent <= MaxRefresh
           /\ auth' = g2.auth
           /\ clr' = c2
           /\ proc' = pr
           /\ IF Settled(pr["sar"]) /\ Settled(pr["opt"])
              THEN /\ lk' = "done"
                   /\ lkResult' = findSatelliteImagery(Outcome(pr["sar"]), Outcome(pr["opt"]))
              ELSE /\ lk' = "running"
                   /\ lkResult' = NoResult
    /\ UNCHANGED <<credentials, now, issued>>
    /\ UNCHANGED <<storeVars, viewVars>>

\* getCopernicusToken lines 157-159, called by an image component or a layer
GetToken(p) ==
    /\ p \in Direct
    /\ proc[p].pc \in {"idle", "ok", "err"}
    /\ LET g == getAccessToken(auth)
       IN  /\ g.auth.sent <= MaxRefresh
           /\ auth' = g.auth
           /\ clr' = ClrNoteGet(clr, p, g)
           /\ proc' = [proc EXCEPT ![p] =
                         IF g.kind = "token"
                         THEN [IdleProc EXCEPT !.pc = "ok", !.tok = g.token]
                         ELSE IF g.kind = "wait"
                         THEN [IdleProc EXCEPT !.pc = "tok1", !.waitOn = g.req]
                         ELSE [IdleProc EXCEPT !.pc = "err", !.err = "token"]]
    /\ UNCHANGED <<credentials, now, issued, lk, lkResult>>
    /\ UNCHANGED <<storeVars, viewVars>>

\* the identity provider answers request r with a token
RefreshOk(r, expiresIn) ==
    /\ r \in auth.inflight
    /\ LET tk == issued + 1
           pr == [p \in Procs |->
                    IF proc[p].pc \in {"tok1", "tok2"} /\ proc[p].waitOn = r
                    THEN Resumed(p, proc[p], tk) ELSE proc[p]]
       IN  /\ issued' = tk
           /\ auth' = RefreshSucceeded(auth, r, tk, expiresIn)
           /\ clr' = ClrNoteSettle(clr, proc, r, tk)
           /\ proc' = pr
           /\ JoinLookup(pr)
    /\ UNCHANGED <<credentials, now>>
    /\ UNCHANGED <<storeVars, viewVars>>

\* the identity provider rejects request r
RefreshRejected(r) ==
    /\ r \in auth.inflight
    /\ LET pr == [p \in Procs |->
                    IF proc[p].pc \in {"tok1", "tok2"} /\ proc[p].waitOn = r
                    THEN Resumed(p, proc[p], 0) ELSE proc[p]]
       IN  /\ auth' = RefreshFailed(auth, r)
           /\ clr' = ClrNoteSettle(clr, proc, r, 0)
           /\ proc' = pr
           /\ JoinLookup(pr)
    /\ UNCHANGED <<credentials, now, issued>>
    /\ UNCHANGED <<storeVars, viewVars>>

\* the catalog answers the request of search p: authenticatedFetch lines
\* 138-154 and the rest of the search
CatalogRespond(p, status, page) ==
    /\ p \in Searches
    /\ proc[p].pc \in {"req1", "req2"}
    /\ status = 200 \/ page = << >>
    /\ IF proc[p].pc = "req1" /\ IsUnauthorized(status)
       THEN LET a1 == clearToken(auth)
                g == getAccessToken(a1)
                pr == [proc EXCEPT ![p] = RetryToken([proc[p] EXCEPT !.resp1 = status], g)]
            IN  /\ g.auth.sent <= MaxRefresh
                /\ auth' = g.auth
                /\ clr' = ClrNoteGet(ClrArmed(auth), p, g)
                /\ proc' = pr
                /\ JoinLookup(pr)
       ELSE LET p0 == IF proc[p].pc = "req1"
                      THEN [proc[p] EXCEPT !.resp1 = status]
                      ELSE [proc[p] EXCEPT !.resp2 = status]
                pr == [proc EXCEPT ![p] = SearchReturn(p, p0, status, page)]
            IN  /\ proc' = pr
                /\ JoinLookup(pr)
                /\ UNCHANGED <<auth, clr>>
    /\ UNCHANGED <<credentials, now, issued>>
    /\ UNCHANGED <<storeVars, viewVars>>

\* clearToken called from outside the catalog client (logout, tests)
ClearToken ==
    /\ auth' = clearToken(auth)
    /\ clr' = ClrArmed(auth)
    /\ UNCHANGED <<credentials, now, issued, proc, lk, lkResult>>
    /\ UNCHANGED <<storeVars, viewVars>>

\* time passes
Tick ==
    /\ now < MaxTicks * BufferMs
    /\ now' = now + BufferMs
    /\ UNCHANGED <<auth, credentials, issued, proc, lk, lkResult, clr>>
    /\ UNCHANGED <<storeVars, viewVars>>

CatalogNext ==
    \/ StartLookup
    \/ \E p \in Direct : GetToken(p)
    \/ \E r \in 1..MaxRefresh, e \in ExpiresIn : RefreshOk(r, e)
    \/ \E r \in 1..MaxRefresh : RefreshRejected(r)
    \/ \E p \in Searches, s \in Statuses, pg \in Pages : CatalogRespond(p, s, pg)
    \/ ClearToken
    \/ Tick


(***************************************************************************)
(* Claims about the token cache and the catalog client                     *)
(***************************************************************************)
Waiting(p) == proc[p].pc \in {"tok1", "tok2"}

\* C1: callers that ask for a token while none is valid share one refresh:
\* at most one identity request is outstanding at any time, every caller that
\* is waiting waits on exactly that request, and callers served by the same
\* request hold the same token.
C1_SingleRefresh ==
    /\ Cardinality(auth.inflight) <= 1
    /\ \A p \in Procs : Waiting(p) => auth.inflight = {proc[p].waitOn}
    /\ \A p, q \in Procs :
          (proc[p].served # 0 /\ proc[p].served = proc[q].served)
              => proc[p].tok = proc[q].tok

\* three callers were served by one and the same identity request
C1_Witness ==
    /\ \A p \in Procs : proc[p].served = 1 /\ proc[p].tok = 1
    /\ auth.sent = 1

C8_AggregateError ==
    lk = "done" =>
        ((proc["sar"].pc = "err" /\ proc["opt"].pc = "err")
            <=> lkResult.promise = "rejected")

C10_ClearForcesRefresh ==
    clr.got # 0 => (clr.got > clr.mark /\ clr.got # clr.cached)

\* a valid token was cached, clearToken ran, and the next caller got a token
C10_Witness ==
    /\ clr.got # 0
    /\ clr.cached # 0
    /\ ~clr.armed

\* the step in which direct caller p calls getAccessToken
TokenCalled(p) == proc[p].pc \notin {"tok1", "tok2"} /\ proc'[p] # proc[p]

\* C11: a getAccessToken call made while a token is cached and now is before
\* expiry - 60 s returns that token in the same step and leaves the cache and
\* the identity requests as they are; a call made at or after expiry - 60 s,
\* or with nothing cached, is never answered in that step.
C11_CacheValidity ==
    [][\A p \in Direct :
          TokenCalled(p) =>
              IF auth.accessToken # 0 /\ now < auth.tokenExpiry - 60000
              THEN /\ proc'[p].pc = "ok"
                   /\ proc'[p].tok = auth.accessToken
                   /\ auth' = auth
              ELSE proc'[p].pc # "ok"]_vars

\* one minute after a token valid for three minutes was stored, a caller was
\* answered from the cache
C11_Witness ==
    /\ now = BufferMs
    /\ auth.accessToken # 0 /\ auth.tokenExpiry = 180 * MsPerSecond
    /\ \E p \in Direct :
          proc[p].pc = "ok" /\ proc[p].served = 0 /\ proc[p].tok = auth.accessToken

\* C12: the refresh marker never outlives its identity request, and a
\* getAccessToken call made when no token is valid and no identity request is
\* outstanding sends a new identity request and waits on it (with credentials
\* missing it fails at once and leaves the marker clear).
C12_FailedRefreshClearsMarker ==
    [][/\ (auth'.isRefreshing \/ auth'.refreshPromise # 0)
              => auth'.refreshPromise \in auth'.inflight
       /\ \A p \in Direct :
             (TokenCalled(p) /\ auth.inflight = {}
                  /\ ~(auth.accessToken # 0 /\ now < auth.tokenExpiry - BufferMs))
                 => IF credentials
                    THEN /\ auth'.sent = auth.sent + 1
                         /\ auth'.inflight = {auth'.sent}
                         /\ proc'[p].pc = "tok1" /\ proc'[p].waitOn = auth'.sent
                    ELSE proc'[p].pc = "err" /\ auth'.inflight = {}]_vars

\* the first identity request was rejected, and a later caller waits on a
\* second one
C12_Witness ==
    /\ issued = 0
    /\ auth.sent = 2 /\ auth.inflight = {2}
    /\ \E p \in Direct : proc[p].pc = "tok1" /\ proc[p].waitOn = 2

\* the step in which search p handles a 401 answer to its first request
Handled401(p) == proc[p].pc = "req1" /\ proc'[p].resp1 = 401

\* C30: when a search handles the 401 of a token for which the other search
\* of the lookup has already handled a 401, and a newer valid token is cached
\* by then, the step keeps that token and sends no identity request.
C30_OneRefreshPerStaleToken ==
    [][\A p, q \in Searches :
          (/\ p # q
           /\ Handled401(p)
           /\ proc[q].resp1 = 401 /\ proc[q].tok1 = proc[p].tok1
           /\ auth.accessToken # 0 /\ auth.accessToken # proc[p].tok1
           /\ now < auth.tokenExpiry - BufferMs)
              => (auth'.accessToken = auth.accessToken /\ auth'.sent = auth.sent)]_vars


(***************************************************************************)
(* useDetections: the table, the query and the in-memory collection        *)
(***************************************************************************)
Ids == {1, 2}
Severities == {"Low", "Critical"}
\* callers that may have an update or a delete in progress
Ops == {1}

\* detection i lies on the prime meridian, 2 (i - 1) degrees north of the
\* equator; the first detection has been verified
Row(i, st, sev, at) ==
    [id |-> i, status |-> st, severity |-> sev, updated_at |-> at, detected_at |-> i,
     validation_status |-> IF i = 1 THEN "Verified" ELSE "Pending",
     latitude |-> 2 * (i - 1), longitude |-> 0]

\* the detections the ingestion pipeline may store
SeedRows == {Row(1, "Oil spill", "Low", 0), Row(2, "Non Oil spill", "Low", 0)}

\* SearchFilters: location is the empty sequence when no location is given
AllFilters == [status |-> "all", severity |-> {}, validationStatus |-> {},
               location |-> << >>]
FilterValues == {AllFilters, [AllFilters EXCEPT !.status = "Oil spill", !.severity = {"Low"}]}

\* a location filter of radius 150 km
Near(lat, lng) == <<[lat |-> lat, lng |-> lng, radius |-> 150]>>

\* the filters the search panel may supply: those above, a validation filter,
\* a location on the equator and a location whose latitude is out of range
SearchValues ==
    FilterValues \cup {[AllFilters EXCEPT !.validationStatus = {"Verified"}],
                       [AllFilters EXCEPT !.location = Near(0, 0)],
                       [AllFilters EXCEPT !.location = Near(91, 0)]}

\* the updates a caller may pass to updateDetection
UpdateValues == {[severity |-> s] : s \in Severities}

\* the updates an editing caller may pass: Partial<OilSpillDetection> admits
\* every field, status included
EditValues == UpdateValues \cup {[status |-> "Non Oil spill"]}

HasRow(rows, i) == \E r \in rows : r.id = i
RowOf(rows, i) == CHOOSE r \in rows : r.id = i

\* fetchDetections lines 66-96: the filters pushed down to the query
Matches(r, f) ==
    /\ (f.status # "all" => r.status = f.status)
    /\ (f.severity # {} => r.severity \in f.severity)
    /\ (f.validationStatus # {} => r.validation_status \in f.validationStatus)

Abs(x) == IF x < 0 THEN -x ELSE x

\* metres of one degree of a great circle of radius 6371 km: 6371 pi / 180
MetresPerDegree == 111195

\* calculateDistance, in metres, for two points on one meridian or on the
\* equator, where the haversine formula reduces to R times the angle between
\* them; every point of the model is one of these
calculateDistance(lat1, lon1, lat2, lon2) ==
    IF lon1 = lon2 THEN MetresPerDegree * Abs(lat2 - lat1)
    ELSE MetresPerDegree * Abs(lon2 - lon1)

LocationFilter_none(data, f) == data

\* fetchDetections lines 106-113: the location filter, applied by the client
LocationFilter(data, f) ==
    IF f.location = << >> THEN data
    ELSE LET c == f.location[1]
         IN  SelectSeq(data, LAMBDA d :
                 calculateDistance(c.lat, c.lng, d.latitude, d.longitude)
                     <= c.radius * 1000)

\* .order('detected_at', { ascending: false })
RECURSIVE SortDesc(_)
SortDesc(rows) ==
    IF rows = {} THEN << >>
    ELSE LET top == CHOOSE r \in rows : \A q \in rows : q.detected_at <= r.detected_at
         IN  <<top>> \o SortDesc(rows \ {top})

\* the select of fetchDetections lines 60-100, evaluated by the database
Query(rows, f) == SortDesc({r \in rows : Matches(r, f)})

\* { ...d, ...updates }
Merge(d, u) == [k \in DOMAIN d |-> IF k \in DOMAIN u THEN u[k] ELSE d[k]]

OptimisticUpdate_all(prev, i, u, at) ==
    [k \in 1..Len(prev) |-> [Merge(prev[k], u) EXCEPT !.updated_at = at]]

\* updateDetection lines 134-136
OptimisticUpdate(prev, i, u, at) ==
    [k \in 1..Len(prev) |->
        IF prev[k].id = i THEN [Merge(prev[k], u) EXCEPT !.updated_at = at] ELSE prev[k]]

\* prev.filter((d) => d.id !== id): deleteDetection line 160, DELETE handler line 261
WithoutId(prev, i) == SelectSeq(prev, LAMBDA d : d.id # i)

Prepended_ifMatches(prev, r) == IF Matches(r, filters) THEN <<r>> \o prev ELSE prev

\* INSERT handler line 243
Prepended(prev, r) == <<r>> \o prev

\* UPDATE handler lines 251-253
Replaced(prev, r) == [k \in 1..Len(prev) |-> IF prev[k].id = r.id THEN r ELSE prev[k]]

ApplyEvent_deleteMatching(prev, e) ==
    IF e.type = "INSERT" THEN Prepended(prev, e.row)
    ELSE IF e.type = "UPDATE" THEN Replaced(prev, e.row)
    ELSE SelectSeq(prev, LAMBDA d : d.id # e.row.id \/ ~Matches(d, filters))

\* the three postgres_changes handlers, lines 238-263
ApplyEvent(prev, e) ==
    IF e.type = "INSERT" THEN Prepended(prev, e.row)
    ELSE IF e.type = "UPDATE" THEN Replaced(prev, e.row)
    ELSE WithoutId(prev, e.row.id)

AfterFetch_blank(prev, f) ==
    IF f.st = "ok" THEN LocationFilter(f.data, f.filters) ELSE << >>

\* fetchDetections lines 100-120: a fetch error throws before setDetections
AfterFetch(prev, f) ==
    IF f.st = "ok" THEN LocationFilter(f.data, f.filters) ELSE prev

\* variant: critical counts the critical records of the whole collection
stats_criticalOfAll ==
    LET oilSpills == SelectSeq(detections, LAMBDA d : d.status = "Oil spill")
    IN  [total |-> Len(detections),
         oilSpills |-> Len(oilSpills),
         nonOilSpills |-> Len(SelectSeq(detections, LAMBDA d : d.status = "Non Oil spill")),
         verified |-> Len(SelectSeq(detections, LAMBDA d : d.validation_status = "Verified")),
         critical |-> Len(SelectSeq(detections, LAMBDA d : d.severity = "Critical"))]

\* the stats memo, lines 200-210, recomputed whenever the collection changes
stats ==
    LET oilSpills == SelectSeq(detections, LAMBDA d : d.status = "Oil spill")
    IN  [total |-> Len(detections),
         oilSpills |-> Len(oilSpills),
         nonOilSpills |-> Len(SelectSeq(detections, LAMBDA d : d.status = "Non Oil spill")),
         verified |-> Len(SelectSeq(detections, LAMBDA d : d.validation_status = "Verified")),
         critical |-> Len(SelectSeq(oilSpills, LAMBDA d : d.severity = "Critical"))]

InColl(r, coll) == \E k \in 1..Len(coll) : coll[k] = r

\* n counts the selects that were sent and have not settled
NoFetch == [st |-> "none", filters |-> AllFilters, data |-> << >>, owner |-> 0, n |-> 0]

FetchInProgress_never == FALSE

\* fetchDetections line 50: isFetchingRef.current
FetchInProgress == isFetching

IdleOp ==
    [st |-> "idle", kind |-> "none", id |-> 0, updates |-> [severity |-> "Low"],
     stamp |-> 0, filters |-> AllFilters, pre |-> << >>, reloaded |-> FALSE]

StoreInit ==
    /\ db = {Row(1, "Oil spill", "Low", 0)}
    /\ clock = 0
    /\ events = << >>
    /\ detections = << >>
    /\ loading = TRUE
    /\ error = "null"
    /\ isFetching = TRUE
    /\ filters \in FilterValues
    /\ mountFilters = filters
    /\ fetch = [NoFetch EXCEPT !.st = "sent", !.filters = filters, !.n = 1]
    /\ op = [i \in Ops |-> IdleOp]
    /\ used = {r.id : r \in db}
    /\ sub = [mounted |-> TRUE, active |-> 1, made |-> 1]
    /\ rf = "idle"

SubscriptionDeps_filters(f) == <<f>>

\* the dependency list of the subscription effect, line 270: empty, so a
\* render with new filters does not run the effect again
SubscriptionDeps(f) == << >>

\* an effect that runs again: cleanup (unsubscribe), then a new subscription
Resubscribed(s) == [s EXCEPT !.made = @ + 1]

\* unmount: channel.unsubscribe(), lines 266-269
Unsubscribed(s) == [s EXCEPT !.mounted = FALSE, !.active = 0]

\* fetchDetections lines 55-100, entered with isFetchingRef.current = false
StartFetch(f, owner) ==
    /\ isFetching' = TRUE
    /\ loading' = TRUE
    /\ error' = "null"
    /\ fetch' = [st |-> "sent", filters |-> f, data |-> << >>, owner |-> owner,
                 n |-> fetch.n + 1]


(***************************************************************************)
(* Actions of the detection store                                          *)
(***************************************************************************)
\* the database evaluates the select
ServerRead ==
    /\ fetch.st = "sent"
    /\ fetch' = [fetch EXCEPT !.st = "ok", !.data = Query(db, fetch.filters)]
    /\ UNCHANGED <<db, clock, events, detections, loading, error, isFetching,
                   filters, mountFilters, op, used>>
    /\ UNCHANGED <<catalogVars, viewVars, sub, rf>>

\* the select fails (network, server)
ServerReadFail ==
    /\ fetch.st = "sent"
    /\ fetch' = [fetch EXCEPT !.st = "err"]
    /\ UNCHANGED <<db, clock, events, detections, loading, error, isFetching,
                   filters, mountFilters, op, used>>
    /\ UNCHANGED <<catalogVars, viewVars, sub, rf>>

\* variant: the flags are cleared only when the select succeeded
Finally_onSuccess(f) == f.st = "err"

\* fetchDetections lines 121-124, the finally block: the value of the loading
\* flag and of the in-flight marker after a select that settled as f
Finally(f) == FALSE

\* fetchDetections lines 100-124 when the select settles, and the caller that
\* awaited it: updateDetection / deleteDetection lines 147-148 / 168-169
FetchSettle ==
    /\ fetch.st \in {"ok", "err"}
    /\ IF sub.mounted
       THEN /\ detections' = AfterFetch(detections, fetch)
            /\ error' = IF fetch.st = "err" THEN "fetchError" ELSE error
            /\ loading' = Finally(fetch)
       ELSE UNCHANGED <<detections, error, loading>>
    /\ isFetching' = Finally(fetch)
    /\ fetch' = [NoFetch EXCEPT !.n = fetch.n - 1]
    /\ op' = IF fetch.owner # 0
             THEN [op EXCEPT ![fetch.owner].st = "raised", ![fetch.owner].reloaded = TRUE]
             ELSE op
    /\ rf' = "idle"
    /\ UNCHANGED <<db, clock, events, filters, mountFilters, used>>
    /\ UNCHANGED <<catalogVars, viewVars, sub>>

\* handleRefresh: await refetch().  A call made while a fetch is in progress
\* returns at line 52 and handleRefresh resumes in the same task; otherwise it
\* resumes when the select it sent has settled.
Refetch ==
    /\ sub.mounted
    /\ rf = "idle"
    /\ IF FetchInProgress
       THEN /\ rf' = "resumed"
            /\ UNCHANGED <<isFetching, loading, error, fetch>>
       ELSE /\ rf' = "awaiting"
            /\ StartFetch(filters, 0)
    /\ UNCHANGED <<db, clock, events, detections, filters, mountFilters, op, used>>
    /\ UNCHANGED <<catalogVars, viewVars, sub>>

\* the interval of lines 280-283; its callback is the fetchDetections of the
\* render in which the effect ran, the first one
AutoRefresh ==
    /\ sub.mounted
    /\ ~FetchInProgress
    /\ StartFetch(mountFilters, 0)
    /\ UNCHANGED <<db, clock, events, detections, filters, mountFilters, op, used>>
    /\ UNCHANGED <<catalogVars, viewVars, sub, rf>>

FilterDeps_all(f) == f

\* the dependencies of the filter effect, line 228 (the model has no search
\* text)
FilterDeps(f) == <<f.status, f.severity>>

\* the UI supplies new filters; effect of lines 223-228
SetFilters(f) ==
    /\ sub.mounted
    /\ f # filters
    /\ filters' = f
    /\ IF FilterDeps(f) # FilterDeps(filters) /\ ~loading /\ ~FetchInProgress
       THEN StartFetch(f, 0)
       ELSE UNCHANGED <<isFetching, loading, error, fetch>>
    /\ sub' = IF SubscriptionDeps(f) # SubscriptionDeps(filters)
              THEN Resubscribed(sub)
              ELSE sub
    /\ UNCHANGED <<db, clock, events, detections, mountFilters, op, used>>
    /\ UNCHANGED <<catalogVars, viewVars, rf>>

\* the component unmounts: cleanups of lines 266-269 and 285-288
Unmount ==
    /\ sub.mounted
    /\ sub' = Unsubscribed(sub)
    /\ UNCHANGED <<db, clock, events, detections, loading, error, isFetching,
                   filters, mountFilters, fetch, op, used, rf>>
    /\ UNCHANGED <<catalogVars, viewVars>>

CanCall(i) == sub.mounted /\ op[i].st \in {"idle", "done", "raised"}

PreOf(coll, i) ==
    IF \E k \in 1..Len(coll) : coll[k].id = i
    THEN <<coll[CHOOSE k \in 1..Len(coll) : coll[k].id = i]>>
    ELSE << >>

\* updateDetection lines 131-141, up to the await of the remote write
UpdateCall(i, id, u) ==
    /\ CanCall(i)
    /\ detections' = OptimisticUpdate(detections, id, u, clock)
    /\ op' = [op EXCEPT ![i] =
                [st |-> "writing", kind |-> "update", id |-> id, updates |-> u,
                 stamp |-> clock, filters |-> filters, pre |-> PreOf(detections, id),
                 reloaded |-> FALSE]]
    /\ UNCHANGED <<db, clock, events, loading, error, isFetching, filters,
                   mountFilters, fetch, used>>
    /\ UNCHANGED <<catalogVars, viewVars, sub, rf>>

\* deleteDetection lines 158-162, up to the await of the remote delete
DeleteCall(i, id) ==
    /\ CanCall(i)
    /\ detections' = WithoutId(detections, id)
    /\ op' = [op EXCEPT ![i] =
                [st |-> "writing", kind |-> "delete", id |-> id,
                 updates |-> IdleOp.updates, stamp |-> clock, filters |-> filters,
                 pre |-> PreOf(detections, id), reloaded |-> FALSE]]
    /\ UNCHANGED <<db, clock, events, loading, error, isFetching, filters,
                   mountFilters, fetch, used>>
    /\ UNCHANGED <<catalogVars, viewVars, sub, rf>>

\* a committed UPDATE: the trigger update_updated_at_column stamps the row
Written(r, u) == [Merge(r, u) EXCEPT !.updated_at = clock + 1]

\* the database commits the write of call i and publishes the change; the
\* await of line 138 / 162 then resumes with no error and the call returns
WriteOk(i) ==
    /\ op[i].st = "writing"
    /\ HasRow(db, op[i].id) => clock < MaxCommits
    /\ op' = [op EXCEPT ![i].st = "done"]
    /\ IF HasRow(db, op[i].id)
       THEN LET r == RowOf(db, op[i].id)
            IN  /\ clock' = clock + 1
                /\ IF op[i].kind = "update"
                   THEN /\ db' = (db \ {r}) \cup {Written(r, op[i].updates)}
                        /\ events' = Append(events,
                               [type |-> "UPDATE", row |-> Written(r, op[i].updates)])
                   ELSE /\ db' = db \ {r}
                        /\ events' = Append(events, [type |-> "DELETE", row |-> r])
       ELSE UNCHANGED <<db, clock, events>>
    /\ UNCHANGED <<detections, loading, error, isFetching, filters, mountFilters,
                   fetch, used>>
    /\ UNCHANGED <<catalogVars, viewVars, sub, rf>>

\* the write of call i fails and the table is unchanged; the await of line
\* 138 / 162 resumes in the catch of lines 144-149 / 165-170, whose
\* fetchDetections is the one of the render of the call
WriteFail(i) ==
    /\ op[i].st = "writing"
    /\ IF FetchInProgress
       THEN /\ op' = [op EXCEPT ![i].st = "raised"]
            /\ UNCHANGED <<isFetching, loading, error, fetch>>
       ELSE /\ op' = [op EXCEPT ![i].st = "reloading"]
            /\ StartFetch(op[i].filters, i)
    /\ UNCHANGED <<db, clock, events, detections, filters, mountFilters, used>>
    /\ UNCHANGED <<catalogVars, viewVars, sub, rf>>

\* the channel delivers the oldest pending event: handlers of lines 241-262
Deliver ==
    /\ sub.active > 0
    /\ events # << >>
    /\ detections' = ApplyEvent(detections, Head(events))
    /\ events' = Tail(events)
    /\ UNCHANGED <<db, clock, loading, error, isFetching, filters, mountFilters,
                   fetch, op, used>>
    /\ UNCHANGED <<catalogVars, viewVars, sub, rf>>

\* the ingestion pipeline stores a new detection
ExtInsert(r) ==
    /\ r \in SeedRows
    /\ r.id \notin used
    /\ clock < MaxCommits
    /\ clock' = clock + 1
    /\ db' = db \cup {[r EXCEPT !.updated_at = clock + 1]}
    /\ used' = used \cup {r.id}
    /\ events' = Append(events, [type |-> "INSERT", row |-> [r EXCEPT !.updated_at = clock + 1]])
    /\ UNCHANGED <<detections, loading, error, isFetching, filters, mountFilters,
                   fetch, op>>
    /\ UNCHANGED <<catalogVars, viewVars, sub, rf>>

\* another client updates a row
ExtUpdate(i, u) ==
    /\ HasRow(db, i)
    /\ clock < MaxCommits
    /\ clock' = clock + 1
    /\ db' = (db \ {RowOf(db, i)}) \cup {Written(RowOf(db, i), u)}
    /\ events' = Append(events, [type |-> "UPDATE", row |-> Written(RowOf(db, i), u)])
    /\ UNCHANGED <<detections, loading, error, isFetching, filters, mountFilters,
                   fetch, op, used>>
    /\ UNCHANGED <<catalogVars, viewVars, sub, rf>>

\* another client deletes a row
ExtDelete(i) ==
    /\ HasRow(db, i)
    /\ clock < MaxCommits
    /\ clock' = clock + 1
    /\ db' = db \ {RowOf(db, i)}
    /\ events' = Append(events, [type |-> "DELETE", row |-> RowOf(db, i)])
    /\ UNCHANGED <<detections, loading, error, isFetching, filters, mountFilters,
                   fetch, op, used>>
    /\ UNCHANGED <<catalogVars, viewVars, sub, rf>>

\* what the database, the channel and other clients do
Backend ==
    \/ ServerRead
    \/ ServerReadFail
    \/ Deliver
    \/ \E r \in SeedRows : ExtInsert(r)
    \/ \E i \in Ids, u \in UpdateValues : ExtUpdate(i, u)
    \/ \E i \in Ids : ExtDelete(i)

StoreNext ==
    \/ Backend
    \/ FetchSettle
    \/ Refetch
    \/ \E i \in Ops, id \in Ids, u \in UpdateValues : UpdateCall(i, id, u)
    \/ \E i \in Ops, id \in Ids : DeleteCall(i, id)
    \/ \E i \in Ops : WriteOk(i)
    \/ \E i \in Ops : WriteFail(i)

ReloadNext ==
    \/ Backend
    \/ FetchSettle
    \/ Refetch
    \/ AutoRefresh
    \/ \E f \in FilterValues : SetFilters(f)

(***************************************************************************)
(* The search polygon of a catalog search.  Angles are in thousandths of a *)
(* degree and divisions round down.                                        *)
(***************************************************************************)
\* kmPerDegree = 111.32, in hundredths of a kilometre
KmPerDegree == 11132

Lats == {-60000, 0, 60000}
Lngs == {-71285, 0, 25034, 179000}
Buffers == {10, 30, 50, 100, 200}

\* Math.cos((lat * Math.PI) / 180) in hundredths, at the latitudes of Lats
CosPercent(lat) == IF Abs(lat) = 60000 THEN 50 ELSE 100

createBoundingBox_noCos(lat, lng, bufferKm) ==
    LET latBuffer == (bufferKm * 100000) \div KmPerDegree
    IN  [minLat |-> lat - latBuffer, maxLat |-> lat + latBuffer,
         minLng |-> lng - latBuffer, maxLng |-> lng + latBuffer]

\* createBoundingBox, lines 178-189
createBoundingBox(lat, lng, bufferKm) ==
    LET latBuffer == (bufferKm * 100000) \div KmPerDegree
        lngBuffer == (bufferKm * 10000000) \div (KmPerDegree * CosPercent(lat))
    IN  [minLat |-> lat - latBuffer, maxLat |-> lat + latBuffer,
         minLng |-> lng - lngBuffer, maxLng |-> lng + lngBuffer]

\* createWKTPolygon, lines 194-196: the ring as the sequence of its points,
\* each <<longitude, latitude>>
createWKTPolygon(bbox) ==
    << <<bbox.minLng, bbox.minLat>>, <<bbox.maxLng, bbox.minLat>>,
       <<bbox.maxLng, bbox.maxLat>>, <<bbox.minLng, bbox.maxLat>>,
       <<bbox.minLng, bbox.minLat>> >>

NoSearch == [lat |-> 0, lng |-> 0, bufferKm |-> 30, ring |-> << >>]

\* a search is about to be made for some point and buffer
PolygonInit ==
    geo \in {[NoSearch EXCEPT !.lat = la, !.lng = lo, !.bufferKm = b] :
                la \in Lats, lo \in Lngs, b \in Buffers}

\* searchSentinel1 lines 202-204: the footprint of the query
SearchPolygon ==
    /\ geo.ring = << >>
    /\ geo' = [geo EXCEPT !.ring =
                  createWKTPolygon(createBoundingBox(geo.lat, geo.lng, geo.bufferKm))]
    /\ UNCHANGED <<catalogVars, storeVars, image>>

(***************************************************************************)
(* SecureImage: one component and the runs of its effect                   *)
(***************************************************************************)
MaxRuns == 3
Sources == {"PROCESS|a", "PROCESS|b", "https://u"}

IsProcess(src) == src \in {"PROCESS|a", "PROCESS|b"}

\* the values of imageUrl: null, the object URL made from the blob of a
\* process command, a plain URL
NoUrl == [kind |-> "null", of |-> ""]
ObjectUrl(src) == [kind |-> "blob", of |-> src]
PlainUrl(src) == [kind |-> "src", of |-> src]

\* a run of the effect: its src, its isMounted flag, and where fetchImage is
NewRun(src) == [src |-> src, isMounted |-> TRUE, pc |-> "token"]

\* useState lines 93-95 and the effect's run on mount, lines 100-108
Mounted(src) ==
    [mounted |-> TRUE, src |-> src, imageUrl |-> NoUrl, loading |-> TRUE,
     error |-> FALSE, runs |-> <<NewRun(src)>>]

ViewInit == geo = NoSearch /\ image = Mounted("https://u")

ImageInit == image \in {Mounted(s) : s \in Sources}

\* the cleanup of every run: isMounted = false, line 204
CleanedUp(runs) == [k \in 1..Len(runs) |-> [runs[k] EXCEPT !.isMounted = FALSE]]

\* the parent passes another src: cleanup of the last run, then a new run of
\* the effect up to its first await, lines 100-108
ChangeSrc(s) ==
    /\ image.mounted
    /\ s \in Sources \ {image.src}
    /\ Len(image.runs) < MaxRuns
    /\ image' = [image EXCEPT !.src = s, !.loading = TRUE, !.error = FALSE,
                              !.runs = Append(CleanedUp(image.runs), NewRun(s))]
    /\ UNCHANGED <<catalogVars, storeVars, geo>>

\* the component unmounts: cleanup of the last run
ImageUnmount ==
    /\ image.mounted
    /\ image' = [image EXCEPT !.mounted = FALSE, !.runs = CleanedUp(image.runs)]
    /\ UNCHANGED <<catalogVars, storeVars, geo>>

\* a state setter called by run k: React drops the update of an unmounted
\* component
Set(img, field, value) ==
    IF img.mounted THEN [img EXCEPT ![field] = value] ELSE img

\* the catch and the finally of fetchImage, lines 194-199
Caught(img, k) ==
    LET e == IF img.runs[k].isMounted THEN Set(img, "error", TRUE) ELSE img
    IN  IF img.runs[k].isMounted THEN Set(e, "loading", FALSE) ELSE e

\* finally alone, lines 197-199
Finished(img, k) ==
    IF img.runs[k].isMounted THEN Set(img, "loading", FALSE) ELSE img

\* getCopernicusToken resolves for run k, line 108: a process command sends
\* its POST (168), a plain URL is stored (190-192)
TokenResolved(k) ==
    /\ k \in 1..Len(image.runs)
    /\ image.runs[k].pc = "token"
    /\ image' =
          IF IsProcess(image.runs[k].src)
          THEN [image EXCEPT !.runs[k].pc = "blob"]
          ELSE LET stored == Set(image, "imageUrl", PlainUrl(image.runs[k].src))
               IN  [Finished(stored, k) EXCEPT !.runs[k].pc = "done"]
    /\ UNCHANGED <<catalogVars, storeVars, geo>>

\* getCopernicusToken rejects for run k
TokenRejected(k) ==
    /\ k \in 1..Len(image.runs)
    /\ image.runs[k].pc = "token"
    /\ image' = [Caught(image, k) EXCEPT !.runs[k].pc = "done"]
    /\ UNCHANGED <<catalogVars, storeVars, geo>>

\* the process API answers with the image, lines 183-187
BlobArrived(k) ==
    /\ k \in 1..Len(image.runs)
    /\ image.runs[k].pc = "blob"
    /\ image' =
          LET stored == IF image.runs[k].isMounted
                        THEN Set(image, "imageUrl", ObjectUrl(image.runs[k].src))
                        ELSE image
          IN  [Finished(stored, k) EXCEPT !.runs[k].pc = "done"]
    /\ UNCHANGED <<catalogVars, storeVars, geo>>

\* the process API fails or answers with an error status, lines 177-181
ProcessFailed(k) ==
    /\ k \in 1..Len(image.runs)
    /\ image.runs[k].pc = "blob"
    /\ image' = [Caught(image, k) EXCEPT !.runs[k].pc = "done"]
    /\ UNCHANGED <<catalogVars, storeVars, geo>>

PolygonNext == SearchPolygon

ImageNext ==
    \/ \E s \in Sources : ChangeSrc(s)
    \/ ImageUnmount
    \/ \E k \in 1..MaxRuns : TokenResolved(k)
    \/ \E k \in 1..MaxRuns : TokenRejected(k)
    \/ \E k \in 1..MaxRuns : BlobArrived(k)
    \/ \E k \in 1..MaxRuns : ProcessFailed(k)
(***************************************************************************)
\* the catalog client alone: the detection store stays as mounted
InitCatalog == CatalogInit /\ StoreInit /\ ViewInit /\ filters = AllFilters

SpecCatalog == InitCatalog /\ [][CatalogNext]_vars

InitStore == StoreInit /\ CatalogInit /\ ViewInit /\ credentials = TRUE

\* the detection store under fixed filters: reloads, optimistic updates and
\* deletes, the live subscription
SpecStore == InitStore /\ [][StoreNext]_vars

\* the detection store without local mutations: every trigger of a reload
SpecReload == InitStore /\ [][ReloadNext]_vars

\* the same, on a network that answers every select and an event loop that
\* runs every continuation
ReloadFairness ==
    /\ WF_vars(ServerRead \/ ServerReadFail)
    /\ WF_vars(FetchSettle)

SpecReloadFair == InitStore /\ [][ReloadNext]_vars /\ ReloadFairness

\* the detection store driven by the search panel, while the ingestion
\* pipeline stores detections
SearchNext ==
    \/ ServerRead
    \/ ServerReadFail
    \/ FetchSettle
    \/ Deliver
    \/ \E r \in SeedRows : ExtInsert(r)
    \/ \E f \in SearchValues : SetFilters(f)

SpecSearch == InitStore /\ [][SearchNext]_vars

\* the search polygon of every point and buffer of the model
InitPolygon ==
    /\ CatalogInit /\ StoreInit /\ filters = AllFilters /\ credentials = TRUE
    /\ PolygonInit /\ image = Mounted("https://u")

SpecPolygon == InitPolygon /\ [][PolygonNext]_vars

\* one SecureImage component under every order of src changes, unmount and
\* network results
InitImage ==
    /\ CatalogInit /\ StoreInit /\ filters = AllFilters /\ credentials = TRUE
    /\ geo = NoSearch /\ ImageInit

SpecImage == InitImage /\ [][ImageNext]_vars

\* every step of one client's hook, with no other writer of the table
HookNext ==
    \/ ServerRead
    \/ ServerReadFail
    \/ Deliver
    \/ FetchSettle
    \/ Refetch
    \/ AutoRefresh
    \/ \E f \in FilterValues : SetFilters(f)
    \/ \E i \in Ops, id \in Ids, u \in UpdateValues : UpdateCall(i, id, u)
    \/ \E i \in Ops, id \in Ids : DeleteCall(i, id)
    \/ \E i \in Ops : WriteOk(i)
    \/ \E i \in Ops : WriteFail(i)

SpecHook == InitStore /\ [][HookNext]_vars

\* the life of the component: filter changes, reloads, updates and deletes,
\* the events of its own writes, and the unmount
LifeNext ==
    \/ ServerRead
    \/ ServerReadFail
    \/ Deliver
    \/ FetchSettle
    \/ Refetch
    \/ \E f \in FilterValues : SetFilters(f)
    \/ \E i \in Ops, id \in Ids : UpdateCall(i, id, [severity |-> "Critical"])
    \/ \E i \in Ops, id \in Ids : DeleteCall(i, id)
    \/ \E i \in Ops : WriteOk(i)
    \/ \E i \in Ops : WriteFail(i)
    \/ Unmount

SpecLife == InitStore /\ [][LifeNext]_vars

\* one client editing records, any field
EditNext ==
    \/ ServerRead
    \/ ServerReadFail
    \/ FetchSettle
    \/ Deliver
    \/ \E i \in Ops, id \in Ids, u \in EditValues : UpdateCall(i, id, u)
    \/ \E i \in Ops : WriteOk(i)
    \/ \E i \in Ops : WriteFail(i)

SpecEdit == InitStore /\ [][EditNext]_vars

(***************************************************************************)
(* Claims about the detection store                                        *)
(***************************************************************************)
\* the step in which caller i calls updateDetection
UpdateCalled(i) ==
    op[i].st # "writing" /\ op'[i].st = "writing" /\ op'[i].kind = "update"

\* the step in which the error of caller i's failed write is raised to it
ErrorRaised(i) == op[i].st # "raised" /\ op'[i].st = "raised"

\* the record updateDetection put into the collection for call o
OptimisticRecord(o) == [Merge(o.pre[1], o.updates) EXCEPT !.updated_at = o.stamp]

\* C2: the step that calls updateDetection(id, fields) already gives the
\* in-memory record with that id the new field values and the current time as
\* updated_at, keeps its other fields, leaves every other record and the order
\* as they were, and happens before the table is written.
C2_OptimisticUpdate ==
    [][\A i \in Ops :
          UpdateCalled(i) =>
              /\ Len(detections') = Len(detections)
              /\ db' = db
              /\ \A k \in 1..Len(detections) :
                    IF detections[k].id = op'[i].id
                    THEN /\ \A f \in DOMAIN op'[i].updates :
                               detections'[k][f] = op'[i].updates[f]
                         /\ detections'[k].updated_at = clock
                         /\ \A f \in DOMAIN detections[k] \ (DOMAIN op'[i].updates \cup {"updated_at"}) :
                               detections'[k][f] = detections[k][f]
                    ELSE detections'[k] = detections[k]]_vars

\* an update to Critical is visible in a collection of two records while the
\* write is still in flight and the table still holds Low
C2_Witness ==
    \E i \in Ops :
        /\ op[i].st = "writing" /\ op[i].kind = "update"
        /\ op[i].updates.severity = "Critical"
        /\ Len(detections) = 2
        /\ InColl(OptimisticRecord(op[i]), detections)
        /\ HasRow(db, op[i].id) /\ RowOf(db, op[i].id).severity = "Low"

\* C3: an error of a failed update or delete is raised only after a reload
\* that the failed call issued has settled.
C3_ReloadBeforeError ==
    \A i \in Ops : op[i].st = "raised" => op[i].reloaded

\* C4: when the error of a failed update is raised after its forced reload
\* has settled, the collection no longer holds the optimistic record, unless
\* the table holds exactly that record.
C4_FailedUpdateReverts ==
    [][\A i \in Ops :
          (ErrorRaised(i) /\ op'[i].reloaded /\ op[i].kind = "update" /\ op[i].pre # << >>)
              => (InColl(OptimisticRecord(op[i]), detections')
                     => OptimisticRecord(op[i]) \in db')]_vars

\* C5: once the write of an update or a delete has succeeded, no step puts the
\* record as it was before the call back into the collection.
C5_NoRevertOnSuccess ==
    [][\A i \in Ops :
          (op[i].st = "done" /\ op[i].pre # << >> /\ ~InColl(op[i].pre[1], detections))
              => ~InColl(op[i].pre[1], detections')]_vars

\* C6: the step in which a failed fetch settles leaves the collection as it
\* is, sets the error and ends loading.
C6_FailedReloadKeeps ==
    [][(fetch.st = "err" /\ fetch'.st # "err")
          => (detections' = detections /\ error' # "null" /\ loading' = FALSE)]_vars

\* a reload has failed and the collection loaded before it is still there
C6_Witness ==
    /\ error # "null"
    /\ fetch.st = "none"
    /\ detections # << >>

\* the step in which caller i calls deleteDetection
DeleteCalled(i) ==
    op[i].st # "writing" /\ op'[i].st = "writing" /\ op'[i].kind = "delete"

\* C13: the step that calls deleteDetection(id) removes the record from the
\* collection before the table is touched, and when the error of a failed
\* delete is raised while the table still holds the row and the row matches
\* the caller's filters, the collection holds a record with that id again.
C13_FailedDeleteRestores ==
    [][\A i \in Ops :
          /\ DeleteCalled(i) =>
                /\ db' = db
                /\ \A k \in 1..Len(detections') : detections'[k].id # op'[i].id
          /\ (ErrorRaised(i) /\ op[i].kind = "delete" /\ op[i].pre # << >>
                  /\ HasRow(db', op[i].id)
                  /\ Matches(RowOf(db', op[i].id), op[i].filters))
                => \E k \in 1..Len(detections') : detections'[k].id = op[i].id]_vars

\* C14: at most one select of fetchDetections is outstanding at any time,
\* whatever triggered the reloads.
C14_OneFetchInFlight == fetch.n <= 1

\* a forced reload was requested while a fetch was in flight and sent nothing
C14_Witness ==
    \E i \in Ops :
        /\ op[i].st = "raised" /\ ~op[i].reloaded
        /\ fetch.st # "none" /\ fetch.n = 1

\* the step in which await refetch() returns control to handleRefresh
RefetchReturned ==
    \/ rf = "awaiting" /\ rf' = "idle"
    \/ rf = "idle" /\ rf' = "resumed"

\* C15: a refetch call returns control to its caller only when no select is
\* outstanding: a call made while a fetch is in flight returns after that
\* fetch has settled, never before.
C15_SecondCallerJoins ==
    [][RefetchReturned => fetch'.n = 0]_vars

\* C17: the hook subscribed exactly once, holds exactly one active
\* subscription while it is mounted, and none after it was unmounted.
C17_OneSubscription ==
    /\ sub.made = 1
    /\ sub.active = IF sub.mounted THEN 1 ELSE 0

\* the filters were changed, an update was written, and the component was
\* unmounted
C17_Witness ==
    /\ ~sub.mounted /\ sub.active = 0
    /\ filters # mountFilters
    /\ \E i \in Ops : op[i].st = "done" /\ op[i].kind = "update"

\* the step in which the channel hands an event of type t to its handler
EventApplied(t) ==
    events # << >> /\ events' = Tail(events) /\ Head(events).type = t

\* C16: applying a DELETE event for id X leaves no record with id X in the
\* collection, whether or not that record matches the filters, keeps every
\* other record and the order, and changes nothing when X is absent.
C16_DeleteEvent ==
    [][EventApplied("DELETE") =>
          LET x == Head(events).row.id
          IN  /\ \A k \in 1..Len(detections') : detections'[k].id # x
              /\ detections' = SelectSeq(detections, LAMBDA d : d.id # x)
              /\ (\A k \in 1..Len(detections) : detections[k].id # x)
                     => detections' = detections]_vars

\* a record was edited in memory so that it no longer matches the filters,
\* another client deleted its row, the event was delivered and the record is
\* gone
C16_Witness ==
    \E i \in Ops :
        /\ op[i].st = "writing" /\ op[i].kind = "update" /\ op[i].pre # << >>
        /\ ~Matches(OptimisticRecord(op[i]), filters)
        /\ ~HasRow(db, op[i].id)
        /\ events = << >>
        /\ \A k \in 1..Len(detections) : detections[k].id # op[i].id

\* C18: applying an INSERT event makes the new record the first element of
\* the collection and keeps the previous records behind it in their order,
\* whether or not the record matches the filters or a fetch is in flight.
C18_InsertEvent ==
    [][EventApplied("INSERT") =>
          /\ Len(detections') = Len(detections) + 1
          /\ detections'[1] = Head(events).row
          /\ \A k \in 1..Len(detections) : detections'[k + 1] = detections[k]]_vars

\* under filters that select oil spills only, a record that is not an oil
\* spill stands first in the collection, before the loaded one, while a fetch
\* is in flight
C18_Witness ==
    /\ filters.status = "Oil spill"
    /\ Len(detections) = 2
    /\ detections[1].status = "Non Oil spill"
    /\ detections[2].id = 1
    /\ fetch.st # "none"

\* C19: in no step does the updated_at of a record of the collection become
\* smaller than the updated_at the collection held for the same id.
C19_UpdatedAtMonotone ==
    [][\A k \in 1..Len(detections), j \in 1..Len(detections') :
          detections'[j].id = detections[k].id
              => detections'[j].updated_at >= detections[k].updated_at]_vars

\* C20: the step that calls updateDetection(id, fields) leaves the status of
\* the in-memory record with that id as it was, and the fields it sends to the
\* table carry no status other than that one.
C20_StatusImmutable ==
    [][\A i \in Ops :
          UpdateCalled(i) =>
              \A k \in 1..Len(detections) :
                  detections[k].id = op'[i].id =>
                      /\ detections'[k].status = detections[k].status
                      /\ "status" \in DOMAIN op'[i].updates
                             => op'[i].updates.status = detections[k].status]_vars

\* C28: the collection never holds two records with the same id.
C28_UniqueIds ==
    \A j, k \in 1..Len(detections) :
        detections[j].id = detections[k].id => j = k

\* the step in which a select is sent
FetchIssued == fetch'.n = fetch.n + 1

\* C29: every select is built from the filters most recently supplied to the
\* hook at the moment it is sent.
C29_FetchUsesLatestFilters ==
    [][FetchIssued => fetch'.filters = filters']_vars

\* C27: every reload that starts finishes: whenever the store is loading or a
\* select is in flight, it is eventually neither, on success and on failure.
C27_ReloadFinishes ==
    (loading \/ isFetching) ~> (~loading /\ ~isFetching /\ fetch.st = "none")

\* a reload has failed and the store has left the loading state
C27_Witness ==
    error = "fetchError" /\ ~loading /\ ~isFetching /\ fetch.st = "none"

\* C22: every change of the filters made while no reload is in flight sends a
\* select built from the new filters.
C22_FilterChangeReloads ==
    [][(filters' # filters /\ ~loading /\ ~isFetching)
          => (FetchIssued /\ fetch'.filters = filters')]_vars

\* the coordinate ranges of the claim
InRange(c) == c.lat >= -90 /\ c.lat <= 90 /\ c.lng >= -180 /\ c.lng <= 180

\* C21: a reload whose location filter is out of range is rejected before any
\* network request: no select is sent for it.
C21_OutOfRangeRejected ==
    [][(FetchIssued /\ fetch'.filters.location # << >>)
          => InRange(fetch'.filters.location[1])]_vars

\* record r satisfies every filter of f that the database evaluates
Satisfies(r, f) ==
    /\ (f.status = "all" \/ r.status = f.status)
    /\ (f.severity = {} \/ r.severity \in f.severity)
    /\ (f.validationStatus = {} \/ r.validation_status \in f.validationStatus)

\* record r lies within the radius of the location of f, when f has one
WithinRadius(r, f) ==
    f.location = << >>
    \/ MetresPerDegree * Abs(r.latitude - f.location[1].lat) <= f.location[1].radius * 1000

\* sequence s holds exactly the records of set S, once each, latest first
ExactlyLatestFirst(s, S) ==
    /\ {s[k] : k \in 1..Len(s)} = S
    /\ Len(s) = Cardinality(S)
    /\ \A j, k \in 1..Len(s) : j < k => s[j].detected_at >= s[k].detected_at

CountOf(P(_)) == Cardinality({k \in 1..Len(detections) : P(detections[k])})

\* C24: the exposed stats are counts over the current collection: total is its
\* size, oilSpills and nonOilSpills count by status, verified counts the
\* verified records, critical counts the critical oil spills; so oilSpills +
\* nonOilSpills = total and critical <= oilSpills.
C24_StatsAreCounts ==
    /\ stats.total = Len(detections)
    /\ stats.oilSpills = CountOf(LAMBDA d : d.status = "Oil spill")
    /\ stats.nonOilSpills = CountOf(LAMBDA d : d.status = "Non Oil spill")
    /\ stats.verified = CountOf(LAMBDA d : d.validation_status = "Verified")
    /\ stats.critical = CountOf(LAMBDA d : d.status = "Oil spill" /\ d.severity = "Critical")
    /\ stats.oilSpills + stats.nonOilSpills = stats.total
    /\ stats.critical <= stats.oilSpills

\* the collection holds a critical oil spill and a record that is no oil spill
C24_Witness ==
    /\ \E k \in 1..Len(detections) :
           detections[k].status = "Oil spill" /\ detections[k].severity = "Critical"
    /\ \E k \in 1..Len(detections) : detections[k].status = "Non Oil spill"

\* C25: for every radius and point the search polygon is a closed ring of five
\* points whose corners are the four corners of the box lat +- dLat,
\* lng +- dLng, with dLat = r / 111.32 and dLng = r / (111.32 cos(lat)); the
\* box contains the point and spans 2 dLat by 2 dLng.
C25_SearchPolygon ==
    geo.ring # << >> =>
        LET ring == geo.ring
            dLat == (geo.bufferKm * 100000) \div KmPerDegree
            dLng == (geo.bufferKm * 10000000) \div (KmPerDegree * CosPercent(geo.lat))
            lngs == {ring[k][1] : k \in 1..Len(ring)}
            lats == {ring[k][2] : k \in 1..Len(ring)}
        IN  /\ Len(ring) = 5
            /\ ring[1] = ring[5]
            /\ {ring[k] : k \in 1..4} =
                   {<<geo.lng + x, geo.lat + y>> : x \in {-dLng, dLng}, y \in {-dLat, dLat}}
            /\ \A j, k \in 1..4 : j # k => ring[j] # ring[k]
            /\ \E lo, hi \in lats :
                   lo <= geo.lat /\ geo.lat <= hi /\ hi - lo = 2 * dLat
            /\ \E lo, hi \in lngs :
                   lo <= geo.lng /\ geo.lng <= hi /\ hi - lo = 2 * dLng

\* the polygon of a point at latitude 60, where dLng is twice dLat
C25_Witness == geo.ring # << >> /\ geo.lat = 60000 /\ geo.bufferKm = 50

\* the step in which run k of the effect resumes after an await
Resumes(k) ==
    /\ k \in 1..Len(image.runs)
    /\ k \in 1..Len(image'.runs)
    /\ image'.runs[k].pc # image.runs[k].pc

\* C26: a network result that arrives for a run of the image effect after the
\* component was unmounted or its src changed writes no state: imageUrl,
\* loading and error stay as they are.
C26_LateResultIsNoOp ==
    [][\A k \in 1..MaxRuns :
          (Resumes(k) /\ ~image.runs[k].isMounted)
              => /\ image'.imageUrl = image.imageUrl
                 /\ image'.loading = image.loading
                 /\ image'.error = image.error]_vars

=============================================================================
